---- MODULE Spec2Model ----
(***************************************************************************)
(* Deployment validation and execution dispatch of the API deployment      *)
(* helper (backend/api/deployment_helper.py).                              *)
(*                                                                         *)
(* A request names a deployment and carries an API key.                    *)
(* validate_and_process looks the deployment up, validates it and the key, *)
(* and only then calls the handler, which runs execute_workflow:           *)
(*   generate execution id -> stage input files -> call the engine ->      *)
(*   attach status_api, strip metadata -> notify -> serialize,             *)
(* with one except-clause around everything from the engine call to the    *)
(* notification.  Each call to a collaborator is one atomic step; several  *)
(* requests run interleaved.                                               *)
(*                                                                         *)
(* Spec          the requests, against a key store that stays as it is     *)
(* SpecValidator the validator alone, while administrators create,         *)
(*               deactivate and delete deployments and revoke keys         *)
(*                                                                         *)
(* Two more parts of the backend share the module:                         *)
(* SpecCredentials the default-credentials views                           *)
(*               (backend/tenant_account_v2/credentials_view.py)           *)
(* SpecLogin     user_login and its in-memory rate limiter, run by         *)
(*               concurrent workers on one AuthenticationService           *)
(*               (backend/account_v2/authentication_service.py)            *)
(***************************************************************************)
EXTENDS Integers, FiniteSets, Sequences, TLC

\* ------------------------------------------------------------ bounds
MaxReq == 2          \* requests (each is one HTTP request, run once)
MaxWorkers == 2      \* workers serving user_login on one AuthenticationService

Req == 1..MaxReq
Workers == 1..MaxWorkers

\* ------------------------------------------------------------ values
None == "None"
NoId == 0            \* the empty execution id; uuid4 strings are never empty
NoUrl == <<>>        \* status_api not set

ApiNames == {"invoice", "receipt"}
Keys == {"k1", "k2"}

\* api.workflow.id of each deployment record
WorkflowOf(name) == IF name = "invoice" THEN "wf1" ELSE "wf2"

Pending == "PENDING"
Completed == "COMPLETED"
Error == "ERROR"

VARIABLES
    deployments,     \* APIDeployment table: name -> [exists, is_active]
    api_keys,        \* APIKey table: set of <<key, deployment name>>
    storage,         \* staged-input directories: set of <<workflow_id, execution_id>>
    engine,          \* executions the engine accepted (its call returned)
    notified,        \* notifications delivered: [api, execution_id, status]
    uuid_count,      \* number of uuid4() values drawn so far
    pc,              \* per request: position in validate_and_process / execute_workflow
    request,         \* per request: what was received, and what the store held then
    api,             \* per request: kwargs["api"], the validated deployment
    execution_id,    \* per request: the local execution_id of execute_workflow
    include_metadata,\* per request: the include_metadata argument
    result,          \* per request: the local result (ExecutionResponse)
    raised,          \* per request: the exception raised, its text
    response,        \* per request: what execute_workflow returned
    environ,         \* os.environ, the two default-credential keys
    env_file,        \* the .env file: whether it exists, and its lines
    cred_response,   \* the last answer of a default-credentials view
    login_attempts,  \* AuthenticationService.login_attempts: ip -> count (0: no entry)
    login_pc,        \* per worker: position in user_login
    login_request,   \* per worker: the request it is serving
    login_read,      \* per worker: the count read by _increment_login_attempt
    login_response,  \* the ip of the request answered last, and the page it got
    failed_admitted  \* history: per ip, failed POSTs let past the rate-limit
                     \* check since the ip's counter was last reset

storeVars == <<deployments, api_keys>>
worldVars == <<storage, engine, notified, uuid_count>>
reqVars == <<pc, request, api, execution_id, include_metadata, result, raised, response>>
credVars == <<environ, env_file, cred_response>>
loginVars == <<login_attempts, login_pc, login_request, login_read, login_response,
               failed_admitted>>
accountVars == <<credVars, loginVars>>
vars == <<deployments, api_keys, storage, engine, notified, uuid_count,
          pc, request, api, execution_id, include_metadata, result, raised, response,
          environ, env_file, cred_response,
          login_attempts, login_pc, login_request, login_read, login_response,
          failed_admitted>>

\* ------------------------------------------------------------ exceptions
APINotFound == "APINotFound"
InactiveAPI == "InactiveAPI"
Unauthorized == "Unauthorized"
StagingError == "StagingError"
EngineError == "EngineError"
PostProcessError == "PostProcessError"
NotificationError == "NotificationError"

\* ------------------------------------------------------------ key store
\* a lookup that falls back to some existing deployment when the name is unknown
get_deployment_by_api_name_AnyRecord(api_name) ==
    IF deployments[api_name].exists THEN api_name
    ELSE IF \E n \in ApiNames : deployments[n].exists
    THEN CHOOSE n \in ApiNames : deployments[n].exists
    ELSE None

\* APIDeployment.objects.get(api_name=...) or None
get_deployment_by_api_name(api_name) ==
    IF deployments[api_name].exists THEN api_name ELSE None

\* KeyHelper.validate_api_key: raises unless the key is bound to the deployment
KeyHelper_validate_api_key(api_key, instance) ==
    IF <<api_key, instance>> \in api_keys THEN None ELSE Unauthorized

\* a validate_api that checks the key before the active flag
validate_api_KeyFirst(api_deployment, api_key) ==
    IF api_deployment = None
    THEN [exc |-> APINotFound, key_checked |-> FALSE]
    ELSE IF KeyHelper_validate_api_key(api_key, api_deployment) # None
    THEN [exc |-> Unauthorized, key_checked |-> TRUE]
    ELSE [exc |-> IF deployments[api_deployment].is_active THEN None ELSE InactiveAPI,
          key_checked |-> TRUE]

\* a validate_api that never checks the key
validate_api_NoKeyCheck(api_deployment, api_key) ==
    IF api_deployment = None
    THEN [exc |-> APINotFound, key_checked |-> FALSE]
    ELSE IF ~deployments[api_deployment].is_active
    THEN [exc |-> InactiveAPI, key_checked |-> FALSE]
    ELSE [exc |-> None, key_checked |-> FALSE]

\* validate_api: the exception raised (None when it returns) and whether the
\* key check was reached
validate_api(api_deployment, api_key) ==
    IF api_deployment = None
    THEN [exc |-> APINotFound, key_checked |-> FALSE]
    ELSE IF ~deployments[api_deployment].is_active
    THEN [exc |-> InactiveAPI, key_checked |-> FALSE]
    ELSE [exc |-> KeyHelper_validate_api_key(api_key, api_deployment),
          key_checked |-> TRUE]

\* ------------------------------------------------------------ pure helpers
\* api.api_endpoint, as construct_complete_endpoint builds it:
\* f"{ApiExecution.PATH}/{org_schema}/{api_name}/"
construct_complete_endpoint(api_name) ==
    <<"deployment/api", "/", "org", "/", api_name, "/">>

\* a status endpoint that is the bare endpoint path, without the query
construct_status_endpoint_NoQuery(api_endpoint, eid) == <<"/">> \o api_endpoint

\* urlencode({"execution_id": execution_id}) then f"/{api_endpoint}?{query}"
construct_status_endpoint(api_endpoint, eid) ==
    <<"/">> \o api_endpoint \o <<"?">> \o <<"execution_id", "=", eid>>

\* ExecutionResponse as the engine returns it: status_api not yet set
ExecutionResponse(workflow_id, eid, status, error, result_keys) ==
    [workflow_id |-> workflow_id, execution_id |-> eid,
     execution_status |-> status, status_api |-> NoUrl,
     error |-> error, result_keys |-> result_keys]

\* what execute_workflow_async can return for an execution: still running,
\* completed (with or without metadata in the result), or failed
EngineResults(workflow_id, eid) ==
    {ExecutionResponse(workflow_id, eid, Pending, None, {}),
     ExecutionResponse(workflow_id, eid, Completed, None, {"output"}),
     ExecutionResponse(workflow_id, eid, Completed, None, {"output", "metadata"}),
     ExecutionResponse(workflow_id, eid, Error, "engine reported error", {})}

\* ExecutionResponse.remove_result_metadata_keys
remove_result_metadata_keys(res) ==
    [res EXCEPT !.result_keys = @ \ {"metadata"}]

\* APIExecutionResponseSerializer(result).data
APIExecutionResponseSerializer(res) ==
    [execution_id |-> res.execution_id, status |-> res.execution_status,
     status_api |-> res.status_api, error |-> res.error,
     result_keys |-> res.result_keys]

\* ------------------------------------------------------------ staging store
Dir(workflow_id, eid) == <<workflow_id, eid>>

\* add_input_file_to_api_storage: the directory is created, then the files
\* are written into it; it returns, or raises before or after the directory
\* exists (a failure part-way leaves the directory behind)
StagingOutcomes == {[ok |-> TRUE, dir |-> TRUE],
                    [ok |-> FALSE, dir |-> TRUE],
                    [ok |-> FALSE, dir |-> FALSE]}

StoreAfterStaging(st, workflow_id, eid, o) ==
    IF o.dir THEN st \cup {Dir(workflow_id, eid)} ELSE st

\* DestinationConnector.delete_api_storage_dir
delete_api_storage_dir(st, workflow_id, eid) ==
    st \ {Dir(workflow_id, eid)}

\* ------------------------------------------------------------ default credentials
DEFAULT_AUTH_USERNAME == "DEFAULT_AUTH_USERNAME"
DEFAULT_AUTH_PASSWORD == "DEFAULT_AUTH_PASSWORD"
CredKeys == {DEFAULT_AUTH_USERNAME, DEFAULT_AUTH_PASSWORD}

Unset == "<unset>"               \* the key is not in os.environ
Blank == ""
CredValues == {"alice", "bob"}   \* credential values a request can carry

\* request.user.id of the authenticated requesters, and the role of the
\* organization member of each
Users == {"ann", "bo", "cy"}
RoleOf(u) == IF u = "ann" THEN "admin" ELSE IF u = "bo" THEN "user" ELSE "owner"

\* the values of the UserRole enumeration; any other role makes UserRole(role)
\* raise ValueError
UserRoles == {"admin", "user"}

\* OrganizationMemberService.get_user_by_id
get_user_by_id(u) == [user_id |-> u, role |-> RoleOf(u)]

\* is_organization_admin: UserRole(member.role) == UserRole.ADMIN, False on
\* ValueError
is_organization_admin(member) ==
    IF member.role \in UserRoles THEN member.role = "admin" ELSE FALSE

\* os.environ.get(key, default)
environ_get(env, key, default) == IF env[key] = Unset THEN default ELSE env[key]

\* a line f"{key}={value}\n" of the .env file
EnvLine(key, value) == <<key, value>>

\* index of the first line that starts with f"{key}=", 0 when there is none
FirstLineOf(lines, key) ==
    IF \E i \in 1..Len(lines) : lines[i][1] = key
    THEN CHOOSE i \in 1..Len(lines) :
            /\ lines[i][1] = key
            /\ \A j \in 1..(i - 1) : lines[j][1] # key
    ELSE 0

\* update_env_file: nothing when the file is missing; else the first line of
\* the key is replaced, or the line is appended
update_env_file(file, key, value) ==
    IF ~file.exists THEN file
    ELSE LET i == FirstLineOf(file.lines, key)
         IN IF i # 0
            THEN [file EXCEPT !.lines[i] = EnvLine(key, value)]
            ELSE [file EXCEPT !.lines = Append(@, EnvLine(key, value))]

\* request.data of an update: a field left out is blank
CredentialsData == [username : CredValues \cup {Blank},
                    password : CredValues \cup {Blank}]

\* CredentialsSerializer(data=request.data).is_valid()
CredentialsSerializer_is_valid(data) ==
    data.username # Blank /\ data.password # Blank

\* writing the .env file back succeeds, or raises in the first or in the
\* second call of update_env_file
WriteOutcomes == {"ok", "first write fails", "second write fails"}

Forbidden == "Forbidden"
HTTP_200_OK == "HTTP_200_OK"
HTTP_400_BAD_REQUEST == "HTTP_400_BAD_REQUEST"
HTTP_500_INTERNAL_SERVER_ERROR == "HTTP_500_INTERNAL_SERVER_ERROR"

\* what a view answered: the exception it raised or the status of its
\* Response, and the credential values in the Response's data
CredResponse(u, view, status, data) ==
    [user |-> u, view |-> view, status |-> status, data |-> data]

\* the .env file when the process starts
EnvFiles ==
    {[exists |-> FALSE, lines |-> <<>>],
     [exists |-> TRUE, lines |-> <<>>],
     [exists |-> TRUE, lines |-> <<EnvLine("DEBUG", "1"),
                                   EnvLine(DEFAULT_AUTH_USERNAME, "root"),
                                   EnvLine(DEFAULT_AUTH_PASSWORD, "root")>>],
     [exists |-> TRUE, lines |-> <<EnvLine(DEFAULT_AUTH_USERNAME, "root"),
                                   EnvLine("DEBUG", "1"),
                                   EnvLine(DEFAULT_AUTH_USERNAME, "old")>>]}

\* no default credentials configured, no .env file, no view called yet
CredentialsAtRest ==
    /\ environ = [k \in CredKeys |-> Unset]
    /\ env_file = [exists |-> FALSE, lines |-> <<>>]
    /\ cred_response = CredResponse(None, None, None, {})

\* ------------------------------------------------------------ login values
RateLimit == 5       \* _is_rate_limited: attempts allowed per ip

IPs == {"10.0.0.1", "10.0.0.2"}
GET == "GET"
POST == "POST"

\* what a login request carries: nothing (GET), a form validation rejects
\* (ValueError), credentials authenticate refuses, credentials it accepts
Malformed == "malformed"
Wrong == "wrong"
Correct == "correct"
LoginRequests ==
    [ip : IPs, method : {GET}, form : {None}] \cup
    [ip : IPs, method : {POST}, form : {Malformed, Wrong, Correct}]
NoRequest == [ip |-> None, method |-> None, form |-> None]

\* the pages user_login answers with
TooManyAttempts == "Too many login attempts. Please try again later."
LoginPage == "login page"
ValidationErrorPage == "login page with the ValueError's text"
LoginErrorPage == "login page with USER_LOGIN_ERROR"
Redirect == "redirect to WEB_APP_ORIGIN_URL"

\* the answer to a request
LoginResponse(req, page) == [ip |-> req.ip, page |-> page]

\* AuthenticationService.__init__ (the second, which is the one in effect):
\* login_attempts = {}; no worker is serving a request
LoginConstructed ==
    /\ login_attempts = [ip \in IPs |-> 0]
    /\ login_pc = [w \in Workers |-> "idle"]
    /\ login_request = [w \in Workers |-> NoRequest]
    /\ login_read = [w \in Workers |-> 0]
    /\ login_response = LoginResponse(NoRequest, None)
    /\ failed_admitted = [ip \in IPs |-> 0]

\* ------------------------------------------------------------ initial state
Deployment(exists, is_active) == [exists |-> exists, is_active |-> is_active]

\* one active deployment with its key; the other deployment inactive with its
\* key, or not created
InitDispatch ==
    /\ \E other \in {"inactive", "absent"} :
         /\ deployments = [n \in ApiNames |->
               IF n = "invoice" THEN Deployment(TRUE, TRUE)
               ELSE Deployment(other = "inactive", FALSE)]
         /\ api_keys = {<<"k1", "invoice">>} \cup
               (IF other = "inactive" THEN {<<"k2", "receipt">>} ELSE {})
    /\ storage = {}
    /\ engine = {}
    /\ notified = {}
    /\ uuid_count = 0
    /\ pc = [r \in Req |-> "idle"]
    /\ request = [r \in Req |-> None]
    /\ api = [r \in Req |-> None]
    /\ execution_id = [r \in Req |-> NoId]
    /\ include_metadata = [r \in Req |-> FALSE]
    /\ result = [r \in Req |-> None]
    /\ raised = [r \in Req |-> None]
    /\ response = [r \in Req |-> None]

Init == InitDispatch /\ CredentialsAtRest /\ LoginConstructed

\* ------------------------------------------------------------ validator
\* the request as received, with what the key store held when it was validated
Received(api_name, api_key, key_checked) ==
    [api_name |-> api_name, api_key |-> api_key, key_checked |-> key_checked,
     found |-> deployments[api_name].exists,
     active |-> deployments[api_name].is_active,
     key_bound |-> <<api_key, api_name>> \in api_keys]

\* a validate_and_process that calls the handler whatever validation says
validate_and_process_NoShortCircuit(r) ==
    /\ pc[r] = "idle"
    /\ \E api_name \in ApiNames, api_key \in Keys :
         LET v == validate_api(get_deployment_by_api_name(api_name), api_key)
         IN /\ request' = [request EXCEPT ![r] =
                              Received(api_name, api_key, v.key_checked)]
            /\ pc' = [pc EXCEPT ![r] = "handler"]
            /\ api' = [api EXCEPT ![r] = api_name]
    /\ UNCHANGED <<storeVars, worldVars, execution_id, include_metadata,
                   result, raised, response>>
    /\ UNCHANGED accountVars

\* validate_and_process: look up, validate, then call the handler
validate_and_process(r) ==
    /\ pc[r] = "idle"
    /\ \E api_name \in ApiNames, api_key \in Keys :
         LET api_deployment == get_deployment_by_api_name(api_name)
             v == validate_api(api_deployment, api_key)
         IN /\ request' = [request EXCEPT ![r] =
                              Received(api_name, api_key, v.key_checked)]
            /\ IF v.exc # None
               THEN /\ pc' = [pc EXCEPT ![r] = "rejected"]
                    /\ raised' = [raised EXCEPT ![r] = v.exc]
                    /\ api' = api
               ELSE /\ pc' = [pc EXCEPT ![r] = "handler"]
                    /\ raised' = raised
                    /\ api' = [api EXCEPT ![r] = api_deployment]
    /\ UNCHANGED <<storeVars, worldVars, execution_id, include_metadata,
                   result, response>>
    /\ UNCHANGED accountVars

\* ------------------------------------------------------------ dispatcher
\* an except clause that forgets the cleanup
CleanupOnError_Skipped(st, workflow_id, eid) == st

\* a cleanup that removes every staged directory of the workflow
CleanupOnError_WholeWorkflow(st, workflow_id, eid) ==
    {d \in st : d[1] # workflow_id}

\* lines 185-187: the except clause's cleanup
CleanupOnError(st, workflow_id, eid) ==
    delete_api_storage_dir(st, workflow_id, eid)

\* lines 188-193: the result built in the except clause
ErrorResponse(workflow_id, eid, error) ==
    ExecutionResponse(workflow_id, eid, Error, error, {})

\* lines 184-194: the except clause for the exception `error` raised inside
\* the try block, then the return
ExceptClause(r, error) ==
    LET workflow_id == WorkflowOf(api[r])
        res == ErrorResponse(workflow_id, execution_id[r], error)
    IN /\ raised' = [raised EXCEPT ![r] = error]
       /\ storage' = CleanupOnError(storage, workflow_id, execution_id[r])
       /\ result' = [result EXCEPT ![r] = res]
       /\ response' = [response EXCEPT ![r] = APIExecutionResponseSerializer(res)]
       /\ pc' = [pc EXCEPT ![r] = "returned"]
       /\ UNCHANGED <<storeVars, notified, uuid_count, request, api,
                      execution_id, include_metadata, accountVars>>

\* execute_workflow, lines 161-169: the ids, then the staging call, which is
\* outside the try block: its exception leaves execute_workflow
stage_input_files(r) ==
    /\ pc[r] = "handler"
    /\ \E im \in BOOLEAN, o \in StagingOutcomes :
         LET workflow_id == WorkflowOf(api[r])
             eid == uuid_count + 1
         IN /\ uuid_count' = uuid_count + 1
            /\ execution_id' = [execution_id EXCEPT ![r] = eid]
            /\ include_metadata' = [include_metadata EXCEPT ![r] = im]
            /\ storage' = StoreAfterStaging(storage, workflow_id, eid, o)
            /\ IF o.ok
               THEN /\ pc' = [pc EXCEPT ![r] = "staged"]
                    /\ raised' = raised
               ELSE /\ pc' = [pc EXCEPT ![r] = "raised"]
                    /\ raised' = [raised EXCEPT ![r] = StagingError]
    /\ UNCHANGED <<storeVars, engine, notified, request, api, result, response>>
    /\ UNCHANGED accountVars

\* lines 171-177: execute_workflow_async returns a result
engine_returns(r) ==
    /\ pc[r] = "staged"
    /\ LET workflow_id == WorkflowOf(api[r])
       IN /\ \E res \in EngineResults(workflow_id, execution_id[r]) :
               result' = [result EXCEPT ![r] = res]
          /\ engine' = engine \cup
               {[workflow_id |-> workflow_id, pipeline_id |-> api[r],
                 execution_id |-> execution_id[r]]}
    /\ pc' = [pc EXCEPT ![r] = "dispatched"]
    /\ UNCHANGED <<storeVars, storage, notified, uuid_count, request, api,
                   execution_id, include_metadata, raised, response>>
    /\ UNCHANGED accountVars

\* lines 171-177: execute_workflow_async raises; control passes to the
\* except clause
engine_raises(r) ==
    /\ pc[r] = "staged"
    /\ ExceptClause(r, EngineError)
    /\ UNCHANGED engine

\* a post-processing with the include_metadata test inverted
PostProcessed_Inverted(res, api_name, eid, im) ==
    LET with_url == [res EXCEPT !.status_api =
            construct_status_endpoint(construct_complete_endpoint(api_name), eid)]
    IN IF im THEN remove_result_metadata_keys(with_url) ELSE with_url

\* lines 178-182 on a result: status_api attached, metadata stripped unless
\* include_metadata
PostProcessed(res, api_name, eid, im) ==
    LET with_url == [res EXCEPT !.status_api =
            construct_status_endpoint(construct_complete_endpoint(api_name), eid)]
    IN IF ~im THEN remove_result_metadata_keys(with_url) ELSE with_url

post_process(r) ==
    /\ pc[r] = "dispatched"
    /\ result' = [result EXCEPT ![r] =
          PostProcessed(@, api[r], execution_id[r], include_metadata[r])]
    /\ pc' = [pc EXCEPT ![r] = "post_processed"]
    /\ UNCHANGED <<storeVars, worldVars, request, api, execution_id,
                   include_metadata, raised, response>>
    /\ UNCHANGED accountVars

\* lines 178-182 raise; control passes to the except clause
post_process_raises(r) ==
    /\ pc[r] = "dispatched"
    /\ ExceptClause(r, PostProcessError)
    /\ UNCHANGED engine

\* _send_notification(api, result): what the sink has received afterwards
Notified(sent, api_name, res) ==
    sent \cup {[api |-> api_name, execution_id |-> res.execution_id,
                status |-> res.execution_status]}

\* a dispatch that returns without notifying
send_notification_Skipped(r) ==
    /\ pc[r] = "post_processed"
    /\ response' = [response EXCEPT ![r] = APIExecutionResponseSerializer(result[r])]
    /\ pc' = [pc EXCEPT ![r] = "returned"]
    /\ UNCHANGED <<storeVars, worldVars, request, api, execution_id,
                   include_metadata, result, raised>>
    /\ UNCHANGED accountVars

\* line 183, then line 194
send_notification(r) ==
    /\ pc[r] = "post_processed"
    /\ notified' = Notified(notified, api[r], result[r])
    /\ response' = [response EXCEPT ![r] = APIExecutionResponseSerializer(result[r])]
    /\ pc' = [pc EXCEPT ![r] = "returned"]
    /\ UNCHANGED <<storeVars, storage, engine, uuid_count, request, api,
                   execution_id, include_metadata, result, raised>>
    /\ UNCHANGED accountVars

\* line 183 raises; control passes to the except clause
send_notification_raises(r) ==
    /\ pc[r] = "post_processed"
    /\ ExceptClause(r, NotificationError)
    /\ UNCHANGED engine

Next ==
    \E r \in Req :
        \/ validate_and_process(r)
        \/ stage_input_files(r)
        \/ engine_returns(r)
        \/ engine_raises(r)
        \/ post_process(r)
        \/ post_process_raises(r)
        \/ send_notification(r)
        \/ send_notification_raises(r)

Spec == Init /\ [][Next]_vars

\* ------------------------------------------------------------ administration
BoundKeys == {kb[1] : kb \in api_keys}

\* a deployment is saved and create_api_key makes its key; if making the key
\* fails the deployment is deleted again and ApiKeyCreateException is raised
create_api_key(name) ==
    /\ ~deployments[name].exists
    /\ \E is_active \in BOOLEAN, key_created \in BOOLEAN :
         IF key_created
         THEN \E k \in Keys \ BoundKeys :
                /\ deployments' = [deployments EXCEPT ![name] =
                                      Deployment(TRUE, is_active)]
                /\ api_keys' = api_keys \cup {<<k, name>>}
         ELSE UNCHANGED storeVars
    /\ UNCHANGED <<worldVars, reqVars>>
    /\ UNCHANGED accountVars

\* an administrator activates or deactivates a deployment
set_active(name) ==
    /\ deployments[name].exists
    /\ deployments' = [deployments EXCEPT ![name].is_active = ~@]
    /\ UNCHANGED <<api_keys, worldVars, reqVars>>
    /\ UNCHANGED accountVars

\* an administrator revokes a key
revoke_key(k) ==
    /\ k \in BoundKeys
    /\ api_keys' = {kb \in api_keys : kb[1] # k}
    /\ UNCHANGED <<deployments, worldVars, reqVars>>
    /\ UNCHANGED accountVars

\* an administrator deletes a deployment; its keys go with it
delete_deployment(name) ==
    /\ deployments[name].exists
    /\ deployments' = [deployments EXCEPT ![name] = Deployment(FALSE, FALSE)]
    /\ api_keys' = {kb \in api_keys : kb[2] # name}
    /\ UNCHANGED <<worldVars, reqVars>>
    /\ UNCHANGED accountVars

NextValidator ==
    \/ \E r \in Req : validate_and_process(r)
    \/ \E name \in ApiNames :
          \/ create_api_key(name)
          \/ set_active(name)
          \/ delete_deployment(name)
    \/ \E k \in Keys : revoke_key(k)

SpecValidator == Init /\ [][NextValidator]_vars

\* ------------------------------------------------------------ credentials views
dispatchVars == <<storeVars, worldVars, reqVars>>

\* get_default_credentials, called by the authenticated user u
get_default_credentials(u) ==
    LET org_member == get_user_by_id(u)
    IN /\ IF ~is_organization_admin(org_member)
          THEN cred_response' = CredResponse(u, "get", Forbidden, {})
          ELSE cred_response' = CredResponse(u, "get", HTTP_200_OK,
                  {<<"username", environ_get(environ, DEFAULT_AUTH_USERNAME, Blank)>>,
                   <<"password", environ_get(environ, DEFAULT_AUTH_PASSWORD, Blank)>>})
       /\ UNCHANGED <<environ, env_file, dispatchVars, loginVars>>

\* lines 70-99 of update_default_credentials: what follows the admin check
UpdateAsAdmin(u, data, io) ==
    IF ~CredentialsSerializer_is_valid(data)
    THEN /\ cred_response' = CredResponse(u, "update", HTTP_400_BAD_REQUEST, {})
         /\ UNCHANGED <<environ, env_file>>
    ELSE LET after_first ==
                 update_env_file(env_file, DEFAULT_AUTH_USERNAME, data.username)
             after_second ==
                 update_env_file(after_first, DEFAULT_AUTH_PASSWORD, data.password)
             failed == env_file.exists /\ io # "ok"
         IN /\ environ' = [environ EXCEPT ![DEFAULT_AUTH_USERNAME] = data.username,
                                          ![DEFAULT_AUTH_PASSWORD] = data.password]
            /\ env_file' = IF ~failed THEN after_second
                           ELSE IF io = "first write fails" THEN env_file
                           ELSE after_first
            /\ cred_response' = CredResponse(u, "update",
                   IF failed THEN HTTP_500_INTERNAL_SERVER_ERROR ELSE HTTP_200_OK, {})

\* an update_default_credentials without the admin check
update_default_credentials_NoAdminCheck(u, data, io) ==
    /\ UpdateAsAdmin(u, data, io)
    /\ UNCHANGED <<dispatchVars, loginVars>>

\* update_default_credentials, called by the authenticated user u
update_default_credentials(u, data, io) ==
    LET org_member == get_user_by_id(u)
    IN /\ IF ~is_organization_admin(org_member)
          THEN /\ cred_response' = CredResponse(u, "update", Forbidden, {})
               /\ UNCHANGED <<environ, env_file>>
          ELSE UpdateAsAdmin(u, data, io)
       /\ UNCHANGED <<dispatchVars, loginVars>>

\* the process starts with the default credentials unset or set, and the
\* .env file missing or present
InitCredentials ==
    /\ InitDispatch
    /\ LoginConstructed
    /\ \E v \in {Unset, "root"} : environ = [k \in CredKeys |-> v]
    /\ env_file \in EnvFiles
    /\ cred_response = CredResponse(None, None, None, {})

NextCredentials ==
    \/ \E u \in Users : get_default_credentials(u)
    \/ \E u \in Users, data \in CredentialsData, io \in WriteOutcomes :
          update_default_credentials(u, data, io)

SpecCredentials == InitCredentials /\ [][NextCredentials]_vars

\* ------------------------------------------------------------ login
\* _is_rate_limited: login_attempts.get(ip, 0) >= 5
is_rate_limited(attempts, ip) == attempts[ip] >= RateLimit

\* the POST will fail: validation raises ValueError or authenticate refuses
FailingForm(req) == req.method = POST /\ req.form \in {Malformed, Wrong}

\* one more failed POST admitted for the ip; the history stops counting one
\* past the limit
Admitted(count) == IF count > RateLimit THEN count ELSE count + 1

\* user_login, lines 69-91: the rate-limit check, the GET page, and the
\* validation of the form (which touches nothing shared)
user_login(w, req) ==
    /\ login_pc[w] = "idle"
    /\ IF is_rate_limited(login_attempts, req.ip)
       THEN /\ login_response' = LoginResponse(req, TooManyAttempts)
            /\ UNCHANGED <<login_pc, login_request, failed_admitted>>
       ELSE IF req.method = GET
       THEN /\ login_response' = LoginResponse(req, LoginPage)
            /\ UNCHANGED <<login_pc, login_request, failed_admitted>>
       ELSE /\ login_request' = [login_request EXCEPT ![w] = req]
            /\ login_pc' = [login_pc EXCEPT ![w] =
                  IF req.form = Malformed THEN "increment" ELSE "authenticate"]
            /\ failed_admitted' =
                  IF FailingForm(req)
                  THEN [failed_admitted EXCEPT ![req.ip] = Admitted(@)]
                  ELSE failed_admitted
            /\ UNCHANGED login_response
    /\ UNCHANGED <<login_attempts, login_read, dispatchVars, credVars>>

\* line 93: authenticate_and_login accepts or refuses the credentials
authenticate_and_login(w) ==
    /\ login_pc[w] = "authenticate"
    /\ login_pc' = [login_pc EXCEPT ![w] =
          IF login_request[w].form = Correct THEN "reset" ELSE "increment"]
    /\ UNCHANGED <<login_attempts, login_request, login_read, login_response,
                   failed_admitted, dispatchVars, credVars>>

\* _increment_login_attempt, the read: login_attempts.get(ip, 0)
increment_login_attempt_get(w) ==
    /\ login_pc[w] = "increment"
    /\ login_read' = [login_read EXCEPT ![w] = login_attempts[login_request[w].ip]]
    /\ login_pc' = [login_pc EXCEPT ![w] = "store"]
    /\ UNCHANGED <<login_attempts, login_request, login_response,
                   failed_admitted, dispatchVars, credVars>>

\* the worker has answered its request and is free again
Answered(w, page) ==
    /\ login_response' = LoginResponse(login_request[w], page)
    /\ login_request' = [login_request EXCEPT ![w] = NoRequest]
    /\ login_read' = [login_read EXCEPT ![w] = 0]
    /\ login_pc' = [login_pc EXCEPT ![w] = "idle"]

\* _increment_login_attempt, the store: login_attempts[ip] = <read> + 1,
\* then the error page is returned
increment_login_attempt_set(w) ==
    /\ login_pc[w] = "store"
    /\ login_attempts' = [login_attempts EXCEPT ![login_request[w].ip] =
                             login_read[w] + 1]
    /\ Answered(w, IF login_request[w].form = Malformed
                   THEN ValidationErrorPage ELSE LoginErrorPage)
    /\ UNCHANGED <<failed_admitted, dispatchVars, credVars>>

\* _reset_login_attempts after a successful login, then the redirect
reset_login_attempts(w) ==
    /\ login_pc[w] = "reset"
    /\ login_attempts' = [login_attempts EXCEPT ![login_request[w].ip] = 0]
    /\ failed_admitted' = [failed_admitted EXCEPT ![login_request[w].ip] = 0]
    /\ Answered(w, Redirect)
    /\ UNCHANGED <<dispatchVars, credVars>>

\* the key store of the dispatcher with both deployments created
DispatchIdle == InitDispatch /\ deployments["receipt"].exists

InitLogin == DispatchIdle /\ CredentialsAtRest /\ LoginConstructed

NextLogin ==
    \/ \E w \in Workers, req \in LoginRequests : user_login(w, req)
    \/ \E w \in Workers :
          \/ authenticate_and_login(w)
          \/ increment_login_attempt_get(w)
          \/ increment_login_attempt_set(w)
          \/ reset_login_attempts(w)

SpecLogin == InitLogin /\ [][NextLogin]_vars

\* ------------------------------------------------------------ properties
\* execute_workflow was called for request r and has ended
Ended(r) == pc[r] \in {"returned", "raised"}

\* the staged-input directory of request r's execution
DirOf(r) == Dir(WorkflowOf(api[r]), execution_id[r])

\* the except clause built r's result
FailedInTry(r) == pc[r] = "returned" /\ raised[r] # None

\* r's dispatch has a notification delivered for its deployment and result
NotifiedFor(r) ==
    [api |-> api[r], execution_id |-> execution_id[r],
     status |-> result[r].execution_status] \in notified

\* C1: every call of execute_workflow, whatever step fails, ends by returning
\* a result that carries a non-empty execution_id; no failure leaves it as an
\* exception.
C1_DispatchAlwaysReturnsResult ==
    \A r \in Req :
        Ended(r) => /\ pc[r] = "returned"
                    /\ response[r].execution_id # NoId

\* C2: after a failure of staging, of the engine call or of the status-URL /
\* metadata step, the staged-input directory of that execution is gone and
\* the call returned an error result with the failure's text, the execution
\* id generated at the start and the deployment's workflow id.
C2_FailureInSteps2To4CleansUpAndReports ==
    \A r \in Req :
        (Ended(r) /\ raised[r] \in {StagingError, EngineError, PostProcessError})
        => /\ DirOf(r) \notin storage
           /\ pc[r] = "returned"
           /\ response[r].status = Error
           /\ response[r].error = raised[r]
           /\ response[r].execution_id = execution_id[r]
           /\ result[r].workflow_id = WorkflowOf(api[r])

\* C3: when the engine call raised after the files were staged, then once
\* execute_workflow has ended the staged-input directory no longer exists,
\* the returned status is error and the execution id is in the result.
C3_EngineFailureCleansUp ==
    \A r \in Req :
        (Ended(r) /\ raised[r] = EngineError)
        => /\ DirOf(r) \notin storage
           /\ pc[r] = "returned"
           /\ response[r].status = Error
           /\ response[r].execution_id = execution_id[r]
           /\ response[r].execution_id # NoId

\* a dispatch whose engine call raised has returned, next to another
\* execution's directory that is still staged
C3_Witness ==
    \E r, r2 \in Req :
        /\ pc[r] = "returned"
        /\ raised[r] = EngineError
        /\ response[r].error = EngineError
        /\ pc[r2] = "staged"
        /\ DirOf(r2) \in storage

\* C4: a staged-input directory exists only for a dispatch that is between
\* acceptance and hand-off or was handed to the engine; after a dispatch that
\* ended in failure, also one that failed part-way through staging, no
\* directory of that execution remains.
C4_NoOrphanedStagingDirectory ==
    /\ \A r \in Req :
          (pc[r] = "raised" \/ FailedInTry(r)) => DirOf(r) \notin storage
    /\ \A d \in storage :
          \E r \in Req :
              /\ execution_id[r] # NoId
              /\ d = DirOf(r)
              /\ pc[r] \in {"staged", "dispatched", "post_processed", "returned"}

\* C5: once execute_workflow_async has returned a result for an execution, no
\* later step of execute_workflow deletes that execution's staged-input
\* directory.
C5_NoCleanupAfterEngineReturned ==
    \A e \in engine : Dir(e.workflow_id, e.execution_id) \in storage

\* C6: when the engine call succeeded and only the notification raised,
\* execute_workflow returns the engine's result with its status_api, not the
\* except clause's error result, and the staged-input directory is kept.
C6_NotificationFailureNotPropagated ==
    \A r \in Req :
        (pc[r] = "returned" /\ raised[r] = NotificationError)
        => /\ response[r].error # NotificationError
           /\ response[r].status_api # NoUrl
           /\ DirOf(r) \in storage

\* C7 as stated: every dispatch that returns, on the success path and on the
\* error path alike, has sent a notification for its deployment and result.
C7_NotifiesRegardlessOfOutcome ==
    \A r \in Req : pc[r] = "returned" => NotifiedFor(r)

\* C7 as amended: a dispatch that returns has sent the notification for its
\* deployment and result exactly when no step of the try block raised, whatever
\* the state of the engine's result; one that returns the except clause's
\* error result has sent none.
C7_NotifiesOnSuccessPathOnly ==
    \A r \in Req :
        pc[r] = "returned"
        => /\ (raised[r] = None) <=> NotifiedFor(r)
           /\ raised[r] # None =>
                \A n \in notified : n.execution_id # execution_id[r]

\* one dispatch returned the engine's error-state result and was notified,
\* another returned the except clause's result and was not
C7_Witness ==
    \E r1, r2 \in Req :
        /\ pc[r1] = "returned" /\ raised[r1] = None
        /\ response[r1].status = Error /\ NotifiedFor(r1)
        /\ pc[r2] = "returned" /\ raised[r2] = EngineError
        /\ ~NotifiedFor(r2)

\* request r has been through validate_and_process
Validated(r) == pc[r] # "idle"

\* C8: a request for a deployment whose active flag is false fails with
\* InactiveAPI whether or not its key is the deployment's key, and the key
\* check is not reached.
C8_InactiveFailsWhateverTheKey ==
    \A r \in Req :
        (Validated(r) /\ request[r].found /\ ~request[r].active)
        => /\ pc[r] = "rejected"
           /\ raised[r] = InactiveAPI
           /\ ~request[r].key_checked

\* an inactive deployment was asked for with its own key, another time with
\* a key that is not its key, and both requests failed with InactiveAPI
C8_Witness ==
    \E r1, r2 \in Req :
        /\ pc[r1] = "rejected" /\ raised[r1] = InactiveAPI
        /\ request[r1].key_bound
        /\ pc[r2] = "rejected" /\ raised[r2] = InactiveAPI
        /\ ~request[r2].key_bound

\* C9 as stated: a request whose key is not a key of the deployment it names
\* fails with Unauthorized.
C9_MismatchIsUnauthorized ==
    \A r \in Req :
        (Validated(r) /\ request[r].found /\ ~request[r].key_bound)
        => (pc[r] = "rejected" /\ raised[r] = Unauthorized)

\* C9 as amended: a request for an active deployment whose key is not a key
\* of that deployment fails with Unauthorized.
C9_MismatchOnActiveIsUnauthorized ==
    \A r \in Req :
        (Validated(r) /\ request[r].found /\ request[r].active
            /\ ~request[r].key_bound)
        => (pc[r] = "rejected" /\ raised[r] = Unauthorized)

\* a request for an active deployment with a wrong key was rejected after the
\* key check
C9_Witness ==
    \E r \in Req :
        /\ pc[r] = "rejected" /\ raised[r] = Unauthorized
        /\ request[r].active /\ ~request[r].key_bound /\ request[r].key_checked

\* C10: validating a request whose api_name has no deployment record fails
\* with APINotFound for any key, and validating any request leaves the
\* deployments and the keys as they were.
C10_UnknownNameNotFoundReadOnly ==
    [][\A r \in Req :
          (pc[r] = "idle" /\ pc'[r] # "idle")
          => /\ UNCHANGED storeVars
             /\ ~request'[r].found =>
                   (pc'[r] = "rejected" /\ raised'[r] = APINotFound)]_vars

\* a request for a name without a record was rejected with APINotFound while
\* another deployment and its key exist
C10_Witness ==
    \E r \in Req :
        /\ pc[r] = "rejected" /\ raised[r] = APINotFound
        /\ ~request[r].found
        /\ api_keys # {}

\* what the key store held made the request valid: the deployment exists, is
\* active and the key is one of its keys
ValidRequest(req) == req.found /\ req.active /\ req.key_bound

\* C11: validate_and_process calls the handler only after validation
\* succeeded.  A request whose deployment is missing or inactive or whose key
\* is wrong is rejected and stays so: no execution id is generated for it,
\* nothing is staged and the engine is not called.  A valid request has the
\* handler called once, with the validated deployment as kwargs["api"]: it
\* is never validated again and the handler is entered from nowhere else.
C11_HandlerOnlyAfterValidation ==
    [][\A r \in Req :
          /\ (pc[r] = "idle" /\ pc'[r] # "idle")
             => IF ValidRequest(request'[r])
                THEN pc'[r] = "handler" /\ api'[r] = request'[r].api_name
                ELSE pc'[r] = "rejected" /\ api'[r] = None
          /\ pc[r] = "rejected"
             => /\ pc'[r] = "rejected"
                /\ execution_id'[r] = NoId
                /\ uuid_count' = uuid_count \/ \E o \in Req : pc[o] = "handler"
          /\ pc'[r] = "handler" => pc[r] \in {"idle", "handler"}
          /\ pc[r] # "idle" => pc'[r] # "idle"
          /\ \A d \in storage' : \E o \in Req :
                d = DirOf(o)' /\ ValidRequest(request'[o])
          /\ \A e \in engine' : \E o \in Req :
                e.execution_id = execution_id'[o] /\ ValidRequest(request'[o])]_vars

\* a request for an inactive deployment with its own key was rejected and has
\* no execution id, while a valid request went through the handler to the
\* engine
C11_Witness ==
    \E r1, r2 \in Req :
        /\ pc[r1] = "rejected" /\ raised[r1] = InactiveAPI
        /\ request[r1].key_bound /\ execution_id[r1] = NoId
        /\ pc[r2] = "dispatched" /\ api[r2] = request[r2].api_name
        /\ storage = {DirOf(r2)}

\* the request's dispatch succeeded: execute_workflow returned a result and
\* the except clause was not entered
Succeeded(r) == pc[r] = "returned" /\ raised[r] = None

\* C12: the result of every successful dispatch carries a status_api that is
\* the deployment's endpoint path followed by ?execution_id=<id>, and that id
\* is the result's own execution_id, the one the input files were staged
\* under and the one the engine was called with.
C12_StatusApiCarriesExecutionId ==
    \A r \in Req :
        Succeeded(r) =>
            /\ response[r].status_api =
                 <<"/", "deployment/api", "/", "org", "/", api[r], "/",
                   "?", "execution_id", "=", response[r].execution_id>>
            /\ response[r].execution_id = execution_id[r]
            /\ response[r].execution_id # NoId
            /\ <<WorkflowOf(api[r]), response[r].execution_id>> \in storage
            /\ \E e \in engine :
                  /\ e.execution_id = response[r].execution_id
                  /\ e.pipeline_id = api[r]
                  /\ e.workflow_id = WorkflowOf(api[r])

\* two dispatches succeeded, with different execution ids in their status
\* URLs
C12_Witness ==
    \E r1, r2 \in Req :
        /\ Succeeded(r1) /\ Succeeded(r2)
        /\ response[r1].execution_id # response[r2].execution_id
        /\ response[r1].status_api # response[r2].status_api
        /\ response[r1].status = Completed

\* the metadata fields among the fields of a result
MetadataKeys(result_keys) == result_keys \cap {"metadata"}

\* C13: a successful dispatch with include_metadata false returns a result
\* with no metadata fields; with include_metadata true the fields the engine
\* provided, metadata included, are returned as the engine gave them.  Stated
\* on the steps between the engine's return and the return of the response:
\* lines 181-182 keep or strip the engine's fields, and the response returned
\* carries the fields of the result so processed.
C13_MetadataStrippedUnlessRequested ==
    [][\A r \in Req :
          /\ (pc[r] = "dispatched" /\ pc'[r] = "post_processed")
             => /\ result'[r].result_keys \subseteq result[r].result_keys
                /\ result[r].result_keys \ result'[r].result_keys
                     \subseteq {"metadata"}
                /\ include_metadata[r]
                     => result'[r].result_keys = result[r].result_keys
                /\ ~include_metadata[r]
                     => MetadataKeys(result'[r].result_keys) = {}
          /\ (pc[r] = "post_processed" /\ Succeeded(r)')
             => /\ response'[r].result_keys = result[r].result_keys
                /\ response'[r].status = result[r].execution_status
                /\ include_metadata'[r] = include_metadata[r]
          /\ (Succeeded(r)' /\ ~include_metadata'[r])
             => MetadataKeys(response'[r].result_keys) = {}]_vars

\* one dispatch asked for metadata and was returned the engine's metadata,
\* another did not ask and was returned the output without it
C13_Witness ==
    \E r1, r2 \in Req :
        /\ Succeeded(r1) /\ include_metadata[r1]
        /\ response[r1].result_keys = {"output", "metadata"}
        /\ Succeeded(r2) /\ ~include_metadata[r2]
        /\ response[r2].result_keys = {"output"}

\* the request has entered execute_workflow and drawn its execution id
Dispatching(r) == execution_id[r] # NoId

\* C14: dispatches running concurrently against one deployment do not
\* interfere, whatever the interleaving: two dispatches never hold the same
\* execution id or the same staged-input directory, no step of a dispatch
\* changes a deployment record or a key, and a staged directory that
\* disappears in a step is the directory of the dispatch that took the step.
C14_ConcurrentDispatchesIndependent ==
    [][/\ \A r1, r2 \in Req :
            (r1 # r2 /\ Dispatching(r1)' /\ Dispatching(r2)')
            => /\ execution_id'[r1] # execution_id'[r2]
               /\ DirOf(r1)' # DirOf(r2)'
       /\ deployments' = deployments
       /\ api_keys' = api_keys
       /\ \A d \in storage \ storage' :
            \E r \in Req : pc'[r] # pc[r] /\ d = DirOf(r)
       /\ \A r \in Req :
            (Dispatching(r) /\ pc'[r] = pc[r])
            => /\ execution_id'[r] = execution_id[r]
               /\ (DirOf(r) \in storage <=> DirOf(r)' \in storage')]_vars

\* two dispatches against the same deployment: one failed inside the try
\* block and its directory is gone, the other's directory is still staged
C14_Witness ==
    \E r1, r2 \in Req :
        /\ r1 # r2 /\ api[r1] = api[r2]
        /\ pc[r1] = "returned" /\ raised[r1] # None
        /\ DirOf(r1) \notin storage
        /\ Dispatching(r2) /\ DirOf(r2) \in storage
        /\ execution_id[r1] # execution_id[r2]

\* the values the default credentials hold, in the environment or in the
\* .env file
StoredCredentialValues ==
    {environ[k] : k \in CredKeys} \cup
    {env_file.lines[i][2] : i \in {j \in 1..Len(env_file.lines) :
                                      env_file.lines[j][1] \in CredKeys}}

\* C15: a requester whose organization member does not have the admin role
\* gets Forbidden from get_default_credentials and from
\* update_default_credentials, with no credential value in the answer, and
\* the call leaves DEFAULT_AUTH_USERNAME and DEFAULT_AUTH_PASSWORD as they
\* were, in os.environ and in the .env file.
C15_OnlyAdminsReadOrUpdateCredentials ==
    [][\A u \in Users :
          (RoleOf(u) # "admin" /\ cred_response'.user = u)
          => /\ cred_response'.status = Forbidden
             /\ cred_response'.data = {}
             /\ environ' = environ
             /\ env_file' = env_file]_vars

\* an admin has set the default credentials, in the environment and in the
\* file, and a later call by a member with an ordinary role was answered
\* Forbidden
C15_Witness ==
    /\ cred_response.user = "bo"
    /\ cred_response.view = "update"
    /\ cred_response.status = Forbidden
    /\ environ[DEFAULT_AUTH_USERNAME] = "alice"
    /\ environ[DEFAULT_AUTH_PASSWORD] = "bob"
    /\ env_file.exists
    /\ "bob" \in StoredCredentialValues

\* C16: the rate limiter bounds the attempts of an ip: between two resets of
\* the ip's counter at most 5 failed login POSTs from it get past the
\* rate-limit check, and login_attempts[ip] never exceeds 5, however the
\* user_login requests of the workers interleave.
C16_AttemptsBoundedPerIp ==
    \A ip \in IPs :
        /\ login_attempts[ip] <= RateLimit
        /\ failed_admitted[ip] <= RateLimit

\* the ip's counter has reached the limit
Limited(ip) == login_attempts[ip] >= RateLimit

\* C17: the lockout is permanent.  Once login_attempts[ip] has reached 5, a
\* user_login from that ip, GET or POST, is answered with the "Too many login
\* attempts" page and does not go on to authenticate; no step lowers or
\* removes the ip's counter; and a step of a worker changes the counter of no
\* ip but the one of the request it serves.
C17_LockoutPermanent ==
    [][\A ip \in IPs :
          /\ Limited(ip)
             => /\ login_attempts'[ip] >= login_attempts[ip]
                /\ \A w \in Workers :
                      (login_pc[w] = "idle" /\ login_pc'[w] # "idle")
                      => login_request'[w].ip # ip
                /\ (login_pc' = login_pc /\ login_response' # login_response
                    /\ login_response'.ip = ip)
                   => login_response'.page = TooManyAttempts
          /\ login_attempts'[ip] # login_attempts[ip]
             => \E w \in Workers :
                   login_pc'[w] # login_pc[w] /\ login_request[w].ip = ip]_vars

====
